---- MODULE Spec2Model ----
(***************************************************************************)
(* A model of src/utils.py: the four analysis functions of the A/B-testing *)
(* toolkit (calculate_sample_size, check_sample_ratio_mismatch,            *)
(* analyze_conversion_rate, segmentation_analysis).                        *)
(*                                                                         *)
(* Numbers.  Rates and statistics are exact rationals [n, d]; the three    *)
(* IEEE outcomes of a numpy division (finite, +-inf, nan) are kept apart   *)
(* in the field k, because the code's behaviour on a zero denominator      *)
(* depends on whether the operands are numpy scalars (inf/nan and a        *)
(* RuntimeWarning) or Python numbers (ZeroDivisionError).                  *)
(* Probabilities are in per mille, rates of the planner in percent.        *)
(*                                                                         *)
(* Data frames.  A data frame is the bag of its rows: a function from the  *)
(* columns the code reads (variant, converted, segment) to a row count.    *)
(* The variant column holds plain strings, so a variant without rows is    *)
(* absent from value_counts() and from groupby().                          *)
(***************************************************************************)
EXTENDS Integers, Sequences, FiniteSets, TLC

VARIABLES pc, df, args, ret, prev, segments, idx, segment_results, stdout

vars == <<pc, df, args, ret, prev, segments, idx, segment_results, stdout>>

None == [outcome |-> "none"]

Variants == {"control", "treatment"}

Bits == {0, 1}

----------------------------------------------------------------------------
(* Arithmetic of the numeric values                                        *)

RECURSIVE GCD(_, _)
GCD(a, b) == IF b = 0 THEN a ELSE GCD(b, a % b)

Abs(x) == IF x < 0 THEN -x ELSE x

Fin(n, d) ==
    LET s == IF d < 0 THEN -1 ELSE 1
        g == GCD(Abs(n), Abs(d))
    IN  [k |-> "fin", n |-> (s * n) \div g, d |-> (s * d) \div g]

NaN == [k |-> "nan", n |-> 0, d |-> 1]

Inf(sgn) == [k |-> "inf", n |-> sgn, d |-> 1]

Sign(x) == IF x.n > 0 THEN 1 ELSE IF x.n < 0 THEN -1 ELSE 0

IsZero(x) == x.k = "fin" /\ x.n = 0

Add(x, y) ==
    IF x.k = "nan" \/ y.k = "nan" THEN NaN
    ELSE IF x.k = "inf" /\ y.k = "inf"
         THEN (IF x.n = y.n THEN x ELSE NaN)
    ELSE IF x.k = "inf" THEN x
    ELSE IF y.k = "inf" THEN y
    ELSE LET g == GCD(x.d, y.d)
         IN  Fin(x.n * (y.d \div g) + y.n * (x.d \div g), x.d * (y.d \div g))

Neg(x) == [x EXCEPT !.n = -x.n]

Sub(x, y) == Add(x, Neg(y))

Mul(x, y) ==
    IF x.k = "nan" \/ y.k = "nan" THEN NaN
    ELSE IF x.k = "inf" \/ y.k = "inf"
         THEN (IF Sign(x) * Sign(y) = 0 THEN NaN ELSE Inf(Sign(x) * Sign(y)))
    ELSE LET g == GCD(Abs(x.n), y.d)
             h == GCD(Abs(y.n), x.d)
         IN  Fin((x.n \div g) * (y.n \div h), (x.d \div h) * (y.d \div g))

\* numpy true division of two finite values: x/0 is +-inf, 0/0 is nan
NpDiv(x, y) ==
    IF x.k = "nan" \/ y.k = "nan" THEN NaN
    ELSE IF x.k = "inf" THEN (IF y.k = "inf" THEN NaN
                              ELSE Inf(x.n * (IF Sign(y) < 0 THEN -1 ELSE 1)))
    ELSE IF y.k = "inf" THEN Fin(0, 1)
    ELSE IF y.n = 0 THEN (IF x.n = 0 THEN NaN ELSE Inf(Sign(x)))
    ELSE Mul(x, Fin(y.d, y.n))

\* x < y for finite values
Less(x, y) == x.n * y.d < y.n * x.d

\* the float comparison x > y: false as soon as one side is nan
Greater(x, y) ==
    IF x.k = "nan" \/ y.k = "nan" THEN FALSE
    ELSE IF x.k = "inf" THEN x.n > 0 /\ ~(y.k = "inf" /\ y.n > 0)
    ELSE IF y.k = "inf" THEN y.n < 0
    ELSE Less(y, x)

Ceil(x) == (x.n + x.d - 1) \div x.d

----------------------------------------------------------------------------
(* calculate_sample_size                                                   *)

\* scipy.stats.norm.ppf on the probabilities the planner is called with
\* (per mille), as printed in a two-decimal table of the standard normal.
\* The table is odd about 500, as ndtri is on its central branch:
\* ppf(0.25) = -ppf(0.75) exactly.
NormPpfTable ==
    [p \in {100, 250, 500, 750, 800, 975} |->
        CASE p = 100 -> -128
          [] p = 250 -> -67
          [] p = 500 -> 0
          [] p = 750 -> 67
          [] p = 800 -> 84
          [] p = 975 -> 196]

NormPpf(p) == Fin(NormPpfTable[p], 100)

\* baseline_rate and minimum_effect in percent, alpha and power in per mille
BaselineRates == {-10, 10, 50, 110}

MinimumEffects == {-40, -10, -2, 0, 2, 10, 40}

PlanAlphas == {50, 500}

PlanPowers == {100, 250, 500, 800}

PlanInputs ==
    [baseline_rate : BaselineRates, minimum_effect : MinimumEffects,
     alpha : PlanAlphas, power : PlanPowers]

p1(a) == Fin(a.baseline_rate, 100)

p2(a) == Add(p1(a), Fin(a.minimum_effect, 100))

p_pooled(a) == NpDiv(Add(p1(a), p2(a)), Fin(2, 1))

\* the radicand of se_coefficient = np.sqrt(2 * p_pooled * (1 - p_pooled))
SeRadicand(a) ==
    Mul(Fin(2, 1), Mul(p_pooled(a), Sub(Fin(1, 1), p_pooled(a))))

\* se_coefficient ** 2: np.sqrt of a negative number is nan
SeCoefficientSq(a) == IF SeRadicand(a).n < 0 THEN NaN ELSE SeRadicand(a)

z_alpha(a) == NormPpf(1000 - a.alpha \div 2)

z_beta(a) == NormPpf(a.power)

\* n with z_alpha - z_beta for z_alpha + z_beta
SampleSizeNMinusBeta(a) ==
    LET z   == Sub(z_alpha(a), z_beta(a))
        num == Mul(Mul(z, z), SeCoefficientSq(a))
        e   == Fin(a.minimum_effect, 100)
    IN  NpDiv(num, Mul(e, e))

\* n = ((z_alpha + z_beta) * se_coefficient / minimum_effect) ** 2, computed
\* as the square of the numerator over the square of minimum_effect; the
\* numerator is a numpy float, so a zero minimum_effect gives inf or nan
SampleSizeN(a) ==
    LET z   == Add(z_alpha(a), z_beta(a))
        num == Mul(Mul(z, z), SeCoefficientSq(a))
        e   == Fin(a.minimum_effect, 100)
    IN  NpDiv(num, Mul(e, e))

\* int(np.ceil(n)): int() of nan raises ValueError, of inf OverflowError
calculate_sample_size(a) ==
    LET n == SampleSizeN(a)
    IN  CASE n.k = "nan" -> [outcome |-> "raise", value |-> "ValueError"]
          [] n.k = "inf" -> [outcome |-> "raise", value |-> "OverflowError"]
          [] OTHER       -> [outcome |-> "return", value |-> Ceil(n)]

InitPlan ==
    /\ pc = "start"
    /\ args \in PlanInputs
    /\ ret = None
    /\ prev = None
    /\ df = None
    /\ segments = <<>>
    /\ idx = 0
    /\ segment_results = <<>>
    /\ stdout = <<>>

CalculateSampleSize ==
    /\ pc = "start"
    /\ ret' = calculate_sample_size(args)
    /\ pc' = "done"
    /\ UNCHANGED <<df, args, prev, segments, idx, segment_results, stdout>>

\* the caller plans once more with other parameters; the first plan is
\* kept in prev so that two plans can be compared
PlanAgain ==
    /\ pc = "done"
    /\ prev = None
    /\ prev' = [outcome |-> "called", args |-> args, ret |-> ret]
    /\ args' \in PlanInputs
    /\ ret' = None
    /\ pc' = "start"
    /\ UNCHANGED <<df, segments, idx, segment_results, stdout>>

NextPlan == CalculateSampleSize \/ PlanAgain

SpecPlan == InitPlan /\ [][NextPlan]_vars

----------------------------------------------------------------------------
(* Tail probabilities                                                      *)

\* 1 - stats.chi2.cdf(x, df=1), and the two-sided normal p-value
\* 2 * norm.sf(|z|) of proportions_ztest, which is the same function of
\* x = z ** 2.  The value is kept as the statistic it is the upper tail of:
\* the tail is 1.0 at 0, decreases strictly, and is 0.0 at inf.
TailOf(x) ==
    IF x.k = "nan" THEN [k |-> "nan", of |-> NaN] ELSE [k |-> "tail", of |-> x]

\* the quantile chi2.isf(alpha, 1) = norm.isf(alpha / 2) ** 2 for the
\* significance levels in use (per mille), to three decimals
Chi2IsfTable == [a \in {1, 50} |-> IF a = 1 THEN 10828 ELSE 3841]

Chi2Isf(a) == Fin(Chi2IsfTable[a], 1000)

\* p > alpha and p < alpha; every comparison with nan is False
TailGreater(p, a) == p.k = "tail" /\ Greater(Chi2Isf(a), p.of)

TailLess(p, a) == p.k = "tail" /\ Greater(p.of, Chi2Isf(a))

TailIsOne(p) == p.k = "tail" /\ IsZero(p.of)

----------------------------------------------------------------------------
(* Data frames with the columns variant and converted                      *)

\* the number of rows of variant v with converted = b
Frame(c0, c1, t0, t1) ==
    [r \in Variants \X Bits |->
        CASE r = <<"control", 0>>   -> c0
          [] r = <<"control", 1>>   -> c1
          [] r = <<"treatment", 0>> -> t0
          [] r = <<"treatment", 1>> -> t1]

\* df['variant'].value_counts(): the variants that have rows, with counts
value_counts(d) ==
    [v \in {w \in Variants : d[<<w, 0>>] + d[<<w, 1>>] > 0} |->
        d[<<v, 0>>] + d[<<v, 1>>]]

\* Series.get(key, 0)
Get(series, key) == IF key \in DOMAIN series THEN series[key] ELSE 0

----------------------------------------------------------------------------
(* check_sample_ratio_mismatch                                             *)

SrmMaxCount == 40

SrmCounts == {0, 1, 4, 10, SrmMaxCount}

\* the balanced and the skewed split of a 10000-row experiment
SrmLargeSplits == {<<5000, 5000>>, <<7000, 3000>>}

\* expected_ratio in tenths, alpha in per mille
ExpectedRatios == {0, 3, 5, 10}

SrmAlphas == {1, 50}

SrmInputs ==
    [split : (SrmCounts \X SrmCounts) \cup SrmLargeSplits,
     expected_ratio : ExpectedRatios, alpha : SrmAlphas]

\* the statistic with the observed counts as denominators
SrmStatisticObserved(control_count, treatment_count, expected_ratio) ==
    LET total              == control_count + treatment_count
        ratio              == Fin(expected_ratio, 10)
        expected_control   == Mul(Fin(total, 1), ratio)
        expected_treatment == Mul(Fin(total, 1), Sub(Fin(1, 1), ratio))
        dc                 == Sub(Fin(control_count, 1), expected_control)
        dt                 == Sub(Fin(treatment_count, 1), expected_treatment)
    IN  Add(NpDiv(Mul(dc, dc), Fin(control_count, 1)),
            NpDiv(Mul(dt, dt), Fin(treatment_count, 1)))

SrmStatistic(control_count, treatment_count, expected_ratio) ==
    LET total              == control_count + treatment_count
        ratio              == Fin(expected_ratio, 10)
        expected_control   == Mul(Fin(total, 1), ratio)
        expected_treatment == Mul(Fin(total, 1), Sub(Fin(1, 1), ratio))
        dc                 == Sub(Fin(control_count, 1), expected_control)
        dt                 == Sub(Fin(treatment_count, 1), expected_treatment)
    IN  Add(NpDiv(Mul(dc, dc), expected_control),
            NpDiv(Mul(dt, dt), expected_treatment))

\* A count read from value_counts() is a numpy integer and makes every
\* later operation a numpy one; with no row of either variant both counts
\* are the Python default 0 and line 64 divides Python numbers.
check_sample_ratio_mismatch(d, expected_ratio, alpha) ==
    LET variant_counts  == value_counts(d)
        control_count   == Get(variant_counts, "control")
        treatment_count == Get(variant_counts, "treatment")
        chi2_stat == SrmStatistic(control_count, treatment_count, expected_ratio)
        p_value   == TailOf(chi2_stat)
    IN  IF DOMAIN variant_counts = {}
        THEN [outcome |-> "raise", value |-> "ZeroDivisionError",
              chi2_stat |-> NaN, p_value |-> TailOf(NaN)]
        ELSE [outcome |-> "return", value |-> TailGreater(p_value, alpha),
              chi2_stat |-> chi2_stat, p_value |-> p_value]

InitSrm ==
    /\ pc = "start"
    /\ args \in SrmInputs
    /\ df = Frame(args.split[1], 0, args.split[2], 0)
    /\ ret = None
    /\ prev = None
    /\ segments = <<>>
    /\ idx = 0
    /\ segment_results = <<>>
    /\ stdout = <<>>

\* the statistic and the p-value are printed, the verdict is returned
CheckSampleRatioMismatch ==
    /\ pc = "start"
    /\ LET r == check_sample_ratio_mismatch(df, args.expected_ratio, args.alpha)
       IN  /\ ret' = [outcome |-> r.outcome, value |-> r.value]
           /\ stdout' = IF r.outcome = "return"
                        THEN <<[chi2_stat |-> r.chi2_stat, p_value |-> r.p_value]>>
                        ELSE <<>>
    /\ pc' = "done"
    /\ UNCHANGED <<df, args, prev, segments, idx, segment_results>>

NextSrm == CheckSampleRatioMismatch

SpecSrm == InitSrm /\ [][NextSrm]_vars

----------------------------------------------------------------------------
(* statsmodels' proportions_ztest, as both analyses call it                *)

\* the test on the difference of the counts instead of the proportions
proportions_ztest_counts(count1, nobs1, count2, nobs2) ==
    LET diff      == Sub(Fin(count1, 1), Fin(count2, 1))
        pooled    == NpDiv(Fin(count1 + count2, 1), Fin(nobs1 + nobs2, 1))
        nobs_fact == Add(NpDiv(Fin(1, 1), Fin(nobs1, 1)),
                         NpDiv(Fin(1, 1), Fin(nobs2, 1)))
        var       == Mul(Mul(pooled, Sub(Fin(1, 1), pooled)), nobs_fact)
        sq        == NpDiv(Mul(diff, diff), var)
    IN  [z_stat  |-> [sgn |-> IF diff.k = "nan" THEN 0 ELSE Sign(diff), sq |-> sq],
         p_value |-> TailOf(sq)]

\* proportions_ztest([count1, count2], [nobs1, nobs2]): the pooled
\* two-sample test.  z is returned as its sign and its square; the square
\* is nan when z is (a zero standard error under a zero difference).
proportions_ztest(count1, nobs1, count2, nobs2) ==
    LET prop1     == NpDiv(Fin(count1, 1), Fin(nobs1, 1))
        prop2     == NpDiv(Fin(count2, 1), Fin(nobs2, 1))
        diff      == Sub(prop1, prop2)
        pooled    == NpDiv(Fin(count1 + count2, 1), Fin(nobs1 + nobs2, 1))
        nobs_fact == Add(NpDiv(Fin(1, 1), Fin(nobs1, 1)),
                         NpDiv(Fin(1, 1), Fin(nobs2, 1)))
        var       == Mul(Mul(pooled, Sub(Fin(1, 1), pooled)), nobs_fact)
        sq        == NpDiv(Mul(diff, diff), var)
    IN  [z_stat  |-> [sgn |-> IF diff.k = "nan" THEN 0 ELSE Sign(diff), sq |-> sq],
         p_value |-> TailOf(sq)]

----------------------------------------------------------------------------
(* analyze_conversion_rate                                                 *)

AnMaxCount == 4

AnCounts == 0 .. AnMaxCount

\* a grouping that keeps a row for a variant without rows
GroupKeysAll(d) == Variants

\* df.groupby('variant'): one row per variant that has rows
GroupKeys(d) == {v \in Variants : d[<<v, 0>>] + d[<<v, 1>>] > 0}

\* the sessions (count) and conversions (sum) columns of conversion_summary;
\* the rate and revenue columns are not read by the result
ConversionSummary(d) ==
    [v \in GroupKeys(d) |->
        [sessions |-> d[<<v, 0>>] + d[<<v, 1>>], conversions |-> d[<<v, 1>>]]]

\* (treatment_rate / control_rate - 1) * 100 on numpy floats
RelativeLift(treatment_rate, control_rate) ==
    Mul(Sub(NpDiv(treatment_rate, control_rate), Fin(1, 1)), Fin(100, 1))

\* conversion_summary.loc[v, ...] raises KeyError for a variant without a
\* row; nothing after it raises: every quotient is a numpy one
analyze_conversion_rate(d) ==
    LET conversion_summary == ConversionSummary(d)
    IN  IF "control" \notin DOMAIN conversion_summary
        THEN [outcome |-> "raise", value |-> "KeyError", line |-> 101]
        ELSE IF "treatment" \notin DOMAIN conversion_summary
        THEN [outcome |-> "raise", value |-> "KeyError", line |-> 103]
        ELSE
        LET control_conv       == conversion_summary["control"].conversions
            control_sessions   == conversion_summary["control"].sessions
            treatment_conv     == conversion_summary["treatment"].conversions
            treatment_sessions == conversion_summary["treatment"].sessions
            control_rate   == NpDiv(Fin(control_conv, 1), Fin(control_sessions, 1))
            treatment_rate == NpDiv(Fin(treatment_conv, 1), Fin(treatment_sessions, 1))
            test == proportions_ztest(treatment_conv, treatment_sessions,
                                      control_conv, control_sessions)
        IN  [outcome |-> "return",
             value   |-> [conversion_summary |-> conversion_summary,
                          p_value       |-> test.p_value,
                          absolute_lift |-> Sub(treatment_rate, control_rate),
                          relative_lift |-> RelativeLift(treatment_rate, control_rate)],
             z_stat  |-> test.z_stat]

InitAnalyze ==
    /\ pc = "start"
    /\ args = None
    /\ \E c0, c1, t0, t1 \in AnCounts : df = Frame(c0, c1, t0, t1)
    /\ ret = None
    /\ prev = None
    /\ segments = <<>>
    /\ idx = 0
    /\ segment_results = <<>>
    /\ stdout = <<>>

\* the z statistic is printed, the other results are returned
AnalyzeConversionRate ==
    /\ pc = "start"
    /\ LET r == analyze_conversion_rate(df)
       IN  /\ ret' = [outcome |-> r.outcome, value |-> r.value]
           /\ stdout' = IF r.outcome = "return"
                        THEN <<[z_stat |-> r.z_stat]>>
                        ELSE <<>>
    /\ pc' = "done"
    /\ UNCHANGED <<df, args, prev, segments, idx, segment_results>>

NextAnalyze == AnalyzeConversionRate

SpecAnalyze == InitAnalyze /\ [][NextAnalyze]_vars

----------------------------------------------------------------------------
(* segmentation_analysis                                                   *)

Segments == {"mobile", "desktop"}

MinConversions == 5

SegMaxConverted == 6

SegMaxOther == 3

\* rows with converted = 1 and with converted = 0 per segment and variant
ConvertedCounts == {0, MinConversions - 1, MinConversions, SegMaxConverted}

OtherCounts == {0, SegMaxOther}

MinSampleSizes == {-1, 0, MinConversions + 1, SegMaxConverted + SegMaxOther, 100}

\* a data frame with the column segment_col: rows per segment, variant
\* and converted
SegmentFrame(converted, other) ==
    [r \in Segments \X Variants \X Bits |->
        IF r[3] = 1 THEN converted[<<r[1], r[2]>>] ELSE other[<<r[1], r[2]>>]]

\* df[segment_col].unique(): the segment values that have rows, each once,
\* in the order of their first rows
Present(d) ==
    {s \in Segments : \E v \in Variants, b \in Bits : d[<<s, v, b>>] > 0}

UniqueOrders(d) ==
    {q \in UNION {[1 .. n -> Present(d)] : n \in {Cardinality(Present(d))}} :
        \A a, b \in DOMAIN q : a # b => q[a] # q[b]}

\* segment_data[segment_data['variant'] == v]: sum of converted and len
Conversions(d, segment, v) == d[<<segment, v, 1>>]

Sessions(d, segment, v) == d[<<segment, v, 0>>] + d[<<segment, v, 1>>]

\* Gate with > for >= on the session counts
GateStrict(control_sessions, treatment_sessions, control_conversions, treatment_conversions, min_sample_size) ==
    /\ control_sessions > min_sample_size
    /\ treatment_sessions > min_sample_size
    /\ control_conversions >= MinConversions
    /\ treatment_conversions >= MinConversions

\* Gate without the conversion counts
GateSessionsOnly(control_sessions, treatment_sessions, control_conversions, treatment_conversions, min_sample_size) ==
    /\ control_sessions >= min_sample_size
    /\ treatment_sessions >= min_sample_size

\* the condition of lines 201-202
Gate(control_sessions, treatment_sessions, control_conversions, treatment_conversions, min_sample_size) ==
    /\ control_sessions >= min_sample_size
    /\ treatment_sessions >= min_sample_size
    /\ control_conversions >= MinConversions
    /\ treatment_conversions >= MinConversions

\* the row appended for a segment that passes the gate (lines 204-226)
SegmentRow(d, segment) ==
    LET control_conversions   == Conversions(d, segment, "control")
        control_sessions      == Sessions(d, segment, "control")
        treatment_conversions == Conversions(d, segment, "treatment")
        treatment_sessions    == Sessions(d, segment, "treatment")
        control_rate   == NpDiv(Fin(control_conversions, 1), Fin(control_sessions, 1))
        treatment_rate == NpDiv(Fin(treatment_conversions, 1), Fin(treatment_sessions, 1))
        test == proportions_ztest(treatment_conversions, treatment_sessions,
                                  control_conversions, control_sessions)
    IN  [segment            |-> segment,
         control_sessions   |-> control_sessions,
         treatment_sessions |-> treatment_sessions,
         control_rate       |-> control_rate,
         treatment_rate     |-> treatment_rate,
         absolute_lift      |-> Sub(treatment_rate, control_rate),
         relative_lift      |-> IF Greater(control_rate, Fin(0, 1))
                                THEN RelativeLift(treatment_rate, control_rate)
                                ELSE Fin(0, 1),
         p_value            |-> test.p_value,
         significant        |-> TailLess(test.p_value, 50)]

\* what segmentation_analysis prints for a tested segment (line 229) and
\* for one that fails the gate (line 232)
TestedOutput(row) ==
    <<[segment |-> row.segment,
       status  |-> IF row.significant THEN "SIG" ELSE "NS"]>>

\* the else branch without its print
InsufficientOutputSilent(segment) == <<>>

InsufficientOutput(segment) ==
    <<[segment |-> segment, status |-> "Insufficient sample size"]>>

InitSegments ==
    /\ pc = "loop"
    /\ \E converted \in [Segments \X Variants -> ConvertedCounts],
          other \in [Segments \X Variants -> OtherCounts] :
            df = SegmentFrame(converted, other)
    /\ args \in [segment_col : {"device"}, min_sample_size : MinSampleSizes]
    /\ segments \in UniqueOrders(df)
    /\ idx = 1
    /\ segment_results = <<>>
    /\ stdout = <<>>
    /\ ret = None
    /\ prev = None

GateOf(segment) ==
    Gate(Sessions(df, segment, "control"), Sessions(df, segment, "treatment"),
         Conversions(df, segment, "control"), Conversions(df, segment, "treatment"),
         args.min_sample_size)

\* one pass of the loop of line 188 over a segment that passes the gate
SegmentTested ==
    /\ pc = "loop"
    /\ idx <= Len(segments)
    /\ GateOf(segments[idx])
    /\ segment_results' = Append(segment_results, SegmentRow(df, segments[idx]))
    /\ stdout' = stdout \o TestedOutput(SegmentRow(df, segments[idx]))
    /\ idx' = idx + 1
    /\ UNCHANGED <<pc, df, args, ret, prev, segments>>

\* one pass over a segment that fails it: the else branch of line 231
SegmentInsufficient ==
    /\ pc = "loop"
    /\ idx <= Len(segments)
    /\ ~GateOf(segments[idx])
    /\ stdout' = stdout \o InsufficientOutput(segments[idx])
    /\ idx' = idx + 1
    /\ UNCHANGED <<pc, df, args, ret, prev, segments, segment_results>>

\* return pd.DataFrame(segment_results)
SegmentsReturn ==
    /\ pc = "loop"
    /\ idx > Len(segments)
    /\ ret' = [outcome |-> "return", value |-> segment_results]
    /\ pc' = "done"
    /\ UNCHANGED <<df, args, prev, segments, idx, segment_results, stdout>>

NextSegments == SegmentTested \/ SegmentInsufficient \/ SegmentsReturn

SpecSegments == InitSegments /\ [][NextSegments]_vars

----------------------------------------------------------------------------
(* Properties of segmentation_analysis, under SpecSegments                 *)

RowSegments == {segment_results[j].segment : j \in DOMAIN segment_results}

Processed == {segments[j] : j \in 1 .. (idx - 1)}

InsufficientLines ==
    {stdout[j].segment : j \in {k \in DOMAIN stdout :
                                  stdout[k].status = "Insufficient sample size"}}

PassesGate(s) ==
    /\ df[<<s, "control", 0>>] + df[<<s, "control", 1>>] >= args.min_sample_size
    /\ df[<<s, "treatment", 0>>] + df[<<s, "treatment", 1>>] >= args.min_sample_size
    /\ df[<<s, "control", 1>>] >= 5
    /\ df[<<s, "treatment", 1>>] >= 5

\* C1: a segment value has a row in the result if and only if it has at
\* least min_sample_size sessions and at least 5 conversions in each
\* variant; when every segment has fewer than min_sample_size rows per
\* variant the result is empty.
C1_GateDecidesRows ==
    /\ RowSegments \subseteq Processed
    /\ \A s \in Processed : s \in RowSegments <=> PassesGate(s)
    /\ (pc = "done" /\ \A s \in Present(df), v \in Variants :
            df[<<s, v, 0>>] + df[<<s, v, 1>>] < args.min_sample_size)
        => ret.value = <<>>

C1_Witness ==
    /\ pc = "done"
    /\ Len(ret.value) = 1
    /\ Cardinality(Present(df)) = 2
    /\ \E s \in Present(df) :
          /\ s \notin RowSegments
          /\ df[<<s, "control", 1>>] = 4
          /\ df[<<s, "control", 0>>] + 4 >= args.min_sample_size
          /\ df[<<s, "treatment", 1>>] >= 5

C10_RowsHaveSessionsAndPositiveRates ==
    \A j \in DOMAIN segment_results :
        LET row == segment_results[j]
        IN  /\ row.control_sessions >= 5
            /\ row.treatment_sessions >= 5
            /\ Greater(row.control_rate, Fin(0, 1))
            /\ Greater(row.treatment_rate, Fin(0, 1))
            /\ row.relative_lift =
                 RelativeLift(row.treatment_rate, row.control_rate)
            /\ row.relative_lift.k = "fin"

C10_Witness ==
    /\ pc = "done"
    /\ args.min_sample_size <= 0
    /\ Len(segment_results) = 2
    /\ segment_results[1].control_sessions = 5
    /\ segment_results[1].relative_lift.n < 0

----------------------------------------------------------------------------
(* Properties of check_sample_ratio_mismatch, under SpecSrm                *)

SrmTotal == args.split[1] + args.split[2]

\* C3 as stated: with no rows, or with an expected_ratio of 0 or 1, the
\* call raises and returns no verdict.
C3_DegenerateSplitRaises ==
    (pc = "done" /\ (SrmTotal = 0 \/ args.expected_ratio \in {0, 10}))
        => ret.outcome = "raise"

\* C8: the verdict is p_value > alpha, where p_value is the upper tail at
\* one degree of freedom of Pearson's statistic, which for two cells is
\* (control - total*r)^2 / (total*r*(1-r)); a balanced non-empty split with
\* r = 0.5 has statistic 0 and passes, 7000 against 3000 fails at 0.001.
C8_VerdictIsPValueAboveAlpha ==
    (pc = "done" /\ ret.outcome = "return") =>
        LET out == stdout[1]
            r   == args.expected_ratio
        IN  /\ ret.value <=> TailGreater(out.p_value, args.alpha)
            /\ (r \in 1 .. 9) =>
                  /\ out.chi2_stat =
                       Fin((10 * args.split[1] - r * SrmTotal)
                             * (10 * args.split[1] - r * SrmTotal),
                           SrmTotal * r * (10 - r))
                  /\ out.p_value = TailOf(out.chi2_stat)
            /\ (r = 5 /\ args.split[1] = args.split[2]) =>
                  /\ IsZero(out.chi2_stat)
                  /\ TailIsOne(out.p_value)
                  /\ ret.value = TRUE
            /\ (r = 5 /\ args.alpha = 1 /\ args.split = <<7000, 3000>>) =>
                  ret.value = FALSE

C8_Witness ==
    /\ pc = "done"
    /\ args.split = <<5000, 5000>>
    /\ args.expected_ratio = 5
    /\ args.alpha = 1
    /\ ret.outcome = "return"
    /\ ret.value = TRUE
    /\ TailIsOne(stdout[1].p_value)

----------------------------------------------------------------------------
(* Properties of analyze_conversion_rate, under SpecAnalyze                *)

Rows(v) == df[<<v, 0>>] + df[<<v, 1>>]

\* C4: with no control row or no treatment row the call raises where the
\* group is read and returns nothing; a returned summary has both groups,
\* each with at least one session.
C4_MissingVariantRaises ==
    pc = "done" =>
        /\ (Rows("control") = 0 \/ Rows("treatment") = 0)
              => ret.outcome = "raise" /\ ret.value = "KeyError"
        /\ ret.outcome = "return" =>
              \A v \in Variants :
                  /\ v \in DOMAIN ret.value.conversion_summary
                  /\ ret.value.conversion_summary[v].sessions > 0

C4_Witness ==
    /\ pc = "done"
    /\ Rows("control") > 0
    /\ Rows("treatment") = 0
    /\ ret.outcome = "raise"

\* C5 as stated: a control group with sessions and no conversion makes the
\* call raise, and no returned relative_lift is infinite or nan.
C5_ZeroControlRateRaises ==
    pc = "done" =>
        /\ (Rows("control") > 0 /\ df[<<"control", 1>>] = 0)
              => ret.outcome = "raise"
        /\ ret.outcome = "return" => ret.value.relative_lift.k = "fin"

EqualRates ==
    /\ Rows("control") > 0
    /\ Rows("treatment") > 0
    /\ df[<<"control", 1>>] * Rows("treatment")
         = df[<<"treatment", 1>>] * Rows("control")

ZeroLiftResult ==
    /\ ret.outcome = "return"
    /\ IsZero(ret.value.absolute_lift)
    /\ stdout[1].z_stat.sgn = 0
    /\ IsZero(stdout[1].z_stat.sq)
    /\ TailIsOne(ret.value.p_value)

\* C9 as stated: equal rates in the two groups, whatever the common rate,
\* give absolute_lift = 0, z = 0 and p_value = 1.0.
C9_EqualRatesGiveZeroLift == (pc = "done" /\ EqualRates) => ZeroLiftResult

\* C9 as amended: equal rates strictly between 0 and 1 give
\* absolute_lift = 0, z = 0 and p_value = 1.0, whatever the group sizes.
C9_EqualInteriorRatesGiveZeroLift ==
    (pc = "done" /\ EqualRates
       /\ df[<<"control", 1>>] > 0 /\ df[<<"control", 0>>] > 0)
        => ZeroLiftResult

C9_Witness ==
    /\ pc = "done"
    /\ EqualRates
    /\ Rows("control") = 2
    /\ Rows("treatment") = 4
    /\ df[<<"control", 1>>] = 1
    /\ ZeroLiftResult

----------------------------------------------------------------------------
(* Properties of calculate_sample_size, under SpecPlan                     *)

PlanValid(a) ==
    /\ a.baseline_rate > 0 /\ a.baseline_rate < 100
    /\ a.minimum_effect # 0
    /\ a.baseline_rate + a.minimum_effect > 0
    /\ a.baseline_rate + a.minimum_effect < 100
    /\ a.alpha > 0 /\ a.alpha < 1000
    /\ a.power > 0 /\ a.power < 1000

\* from plan a to plan b minimum_effect shrinks toward 0, the rest is fixed
EffectShrinks(a, b) ==
    /\ a.baseline_rate = b.baseline_rate
    /\ a.alpha = b.alpha
    /\ a.power = b.power
    /\ a.minimum_effect * b.minimum_effect > 0
    /\ Abs(b.minimum_effect) <= Abs(a.minimum_effect)

\* from plan a to plan b power increases, the rest is fixed
PowerGrows(a, b) ==
    /\ a.baseline_rate = b.baseline_rate
    /\ a.alpha = b.alpha
    /\ a.minimum_effect = b.minimum_effect
    /\ a.power <= b.power

BothValid == prev.outcome = "called" /\ PlanValid(prev.args) /\ PlanValid(args)

\* C6 as stated: a valid plan returns a positive integer, which does not
\* decrease when minimum_effect shrinks toward 0 nor when power increases.
C6_PositiveAndMonotone ==
    (pc = "done" /\ PlanValid(args)) =>
        /\ ret.outcome = "return"
        /\ ret.value > 0
        /\ (BothValid /\ EffectShrinks(prev.args, args))
              => ret.value >= prev.ret.value
        /\ (BothValid /\ PowerGrows(prev.args, args))
              => ret.value >= prev.ret.value

\* C6 as amended: a valid plan returns an integer >= 0, positive unless
\* power = alpha/2 (where z_alpha + z_beta = 0); it does not decrease when
\* minimum_effect shrinks toward 0, nor when power increases from a value
\* >= alpha/2.
C6_NonNegativeAndMonotoneAboveHalfAlpha ==
    (pc = "done" /\ PlanValid(args)) =>
        /\ ret.outcome = "return"
        /\ ret.value >= 0
        /\ 2 * args.power # args.alpha => ret.value > 0
        /\ (BothValid /\ EffectShrinks(prev.args, args))
              => ret.value >= prev.ret.value
        /\ (BothValid /\ PowerGrows(prev.args, args)
              /\ 2 * prev.args.power >= args.alpha)
              => ret.value >= prev.ret.value

C6_Witness ==
    /\ pc = "done"
    /\ BothValid
    /\ EffectShrinks(prev.args, args)
    /\ Abs(args.minimum_effect) < Abs(prev.args.minimum_effect)
    /\ 2 * args.power > args.alpha
    /\ prev.ret.value > 0
    /\ ret.value > prev.ret.value

\* C7 as stated: minimum_effect = 0, or p1 or p2 outside (0,1), makes the
\* call raise instead of returning a sample size.
C7_InvalidPlanRaises ==
    (pc = "done"
       /\ \/ args.minimum_effect = 0
          \/ args.baseline_rate <= 0 \/ args.baseline_rate >= 100
          \/ args.baseline_rate + args.minimum_effect <= 0
          \/ args.baseline_rate + args.minimum_effect >= 100)
        => ret.outcome = "raise"

====
